---------------------------- MODULE Spec2Model ----------------------------
(***************************************************************************)
(* A model of tmdb_cli.py: the console loop query_loop, the dispatcher     *)
(* search_pa_list over the pattern table pa_list, the handlers and the     *)
(* TMDB API helpers.  Python strings are TLA+ strings, processed character *)
(* by character; Python lists are sequences.                               *)
(***************************************************************************)
EXTENDS Integers, Sequences, FiniteSets, TLC

VARIABLES
    TMDB_API_KEY,   \* the credential read at startup ("" when not configured)
    result_limit,   \* query_loop's local result_limit
    pc,             \* "prompt": the loop waits for a line; "query": it has read
                    \* one and processes it; "done": it has ended
    line,           \* the raw line typed at the last prompt
    world,          \* what the TMDB API would answer during the last iteration
    src,            \* the token lists handed to search_pa_list in the last iteration
    calls,          \* the handler invocations of the last iteration
    requests,       \* the HTTP requests issued in the last iteration
    returned,       \* what search_pa_list returned in the last iteration
    caught,         \* the exception that ended the last iteration ("" if none)
    printed,        \* the messages query_loop printed in the last iteration
    shown,          \* the answers displayed in the last iteration
    farewells       \* how many times the farewell message was printed

vars == <<TMDB_API_KEY, result_limit, pc, line, world, src, calls, requests,
          returned, caught, printed, shown, farewells>>

\* ------------------------------------------------------------------------
\* Bounds of the model

\* The longest result list the API answers with.
MaxResults == 12

\* The longest line made only of blanks, tabs and question marks.
MaxBlank == 2

\* The most words in the title of a "who directed ..." line.
MaxTitle == 3

\* ------------------------------------------------------------------------
\* Python string primitives

Min(a, b) == IF a < b THEN a ELSE b

UpperCase == "ABCDEFGHIJKLMNOPQRSTUVWXYZ"
LowerCase == "abcdefghijklmnopqrstuvwxyz"
Digits == "0123456789"

CharAt(s, i) == SubSeq(s, i, i)

Last(s) == CharAt(s, Len(s))

Contains(s, c) == \E i \in 1..Len(s) : CharAt(s, i) = c

IndexOf(s, c) == CHOOSE i \in 1..Len(s) : CharAt(s, i) = c

IsSpace(c) == c \in {" ", "\t"}

IsDigit(c) == Contains(Digits, c)

\* str.lower() on one character
LowerChar(c) ==
    IF Contains(UpperCase, c) THEN CharAt(LowerCase, IndexOf(UpperCase, c)) ELSE c

RECURSIVE lower(_)
\* str.lower()
lower(s) == IF s = "" THEN "" ELSE LowerChar(Head(s)) \o lower(Tail(s))

RECURSIVE replace(_, _)
\* s.replace(c, "") for a one-character c
replace(s, c) ==
    IF s = "" THEN ""
    ELSE (IF Head(s) = c THEN "" ELSE Head(s)) \o replace(Tail(s), c)

RECURSIVE lstrip(_)
lstrip(s) == IF s # "" /\ IsSpace(Head(s)) THEN lstrip(Tail(s)) ELSE s

RECURSIVE rstrip(_)
rstrip(s) ==
    IF s # "" /\ IsSpace(Last(s)) THEN rstrip(SubSeq(s, 1, Len(s) - 1)) ELSE s

\* str.strip()
strip(s) == rstrip(lstrip(s))

\* s.startswith(p)
startswith(s, p) == Len(s) >= Len(p) /\ SubSeq(s, 1, Len(p)) = p

RECURSIVE SplitFrom(_, _, _)
SplitFrom(s, word, acc) ==
    IF s = "" THEN (IF word = "" THEN acc ELSE Append(acc, word))
    ELSE IF IsSpace(Head(s))
         THEN SplitFrom(Tail(s), "", IF word = "" THEN acc ELSE Append(acc, word))
         ELSE SplitFrom(Tail(s), word \o Head(s), acc)

\* s.split(): the maximal runs of non-whitespace characters
split(s) == SplitFrom(s, "", <<>>)

RECURSIVE SplitOnFrom(_, _, _, _)
SplitOnFrom(s, sep, word, acc) ==
    IF s = "" THEN Append(acc, word)
    ELSE IF Head(s) = sep
         THEN SplitOnFrom(Tail(s), sep, "", Append(acc, word))
         ELSE SplitOnFrom(Tail(s), sep, word \o Head(s), acc)

\* s.split(sep) for a one-character sep
split_on(s, sep) == SplitOnFrom(s, sep, "", <<>>)

RECURSIVE join(_)
\* " ".join(words)
join(words) ==
    IF words = <<>> THEN ""
    ELSE IF Len(words) = 1 THEN Head(words)
    ELSE Head(words) \o " " \o join(Tail(words))

\* the part of an integer literal after its sign
Unsigned(s) == IF s # "" /\ Head(s) \in {"+", "-"} THEN Tail(s) ELSE s

\* int(s) accepts an optional sign, then digits, single underscores between them
IsIntLiteral(s) ==
    LET u == Unsigned(s) IN
    /\ u # ""
    /\ \A i \in 1..Len(u) : IsDigit(CharAt(u, i)) \/ CharAt(u, i) = "_"
    /\ Head(u) # "_"
    /\ Last(u) # "_"
    /\ \A i \in 1..(Len(u) - 1) : ~(CharAt(u, i) = "_" /\ CharAt(u, i + 1) = "_")

RECURSIVE DigitsValue(_, _)
DigitsValue(u, acc) ==
    IF u = "" THEN acc
    ELSE IF Head(u) = "_" THEN DigitsValue(Tail(u), acc)
    ELSE DigitsValue(Tail(u), 10 * acc + (IndexOf(Digits, Head(u)) - 1))

\* int(s), for an s that int accepts
IntValue(s) ==
    IF Head(s) = "-" THEN 0 - DigitsValue(Unsigned(s), 0)
    ELSE DigitsValue(Unsigned(s), 0)

RECURSIVE NatStr(_)
NatStr(n) ==
    IF n < 10 THEN CharAt(Digits, n + 1)
    ELSE NatStr(n \div 10) \o CharAt(Digits, (n % 10) + 1)

\* str(n)
str(n) == IF n < 0 THEN "-" \o NatStr(0 - n) ELSE NatStr(n)

\* xs[:n] for n >= 0
Slice(xs, n) == SubSeq(xs, 1, Min(n, Len(xs)))

\* ------------------------------------------------------------------------
\* The matcher (module match)

None == [some |-> FALSE, val |-> <<>>]
Some(v) == [some |-> TRUE, val |-> v]

RECURSIVE match(_, _)
RECURSIVE MatchMulti(_, _, _)

\* The multi-wildcard at the head of pattern takes the first k tokens of
\* source, for the shortest k >= 1 with which the rest of the pattern matches.
\* (A matcher that also tries k = 0 differs only on inputs that leave the
\* wildcard no token, such as "who directed" alone.)
MatchMulti(pattern, source, k) ==
    IF k > Len(source) THEN None
    ELSE LET rest == match(Tail(pattern), SubSeq(source, k + 1, Len(source)))
         IN IF rest.some
            THEN Some(<<join(SubSeq(source, 1, k))>> \o rest.val)
            ELSE MatchMulti(pattern, source, k + 1)

\* match(pattern, source): the bindings of the wildcards, or None
match(pattern, source) ==
    IF pattern = <<>> THEN (IF source = <<>> THEN Some(<<>>) ELSE None)
    ELSE IF Head(pattern) = "%" THEN MatchMulti(pattern, source, 1)
    ELSE IF source = <<>> THEN None
    ELSE IF Head(pattern) = "_"
         THEN LET rest == match(Tail(pattern), Tail(source))
              IN IF rest.some THEN Some(<<Head(source)>> \o rest.val) ELSE None
    ELSE IF Head(pattern) = Head(source)
         THEN match(Tail(pattern), Tail(source))
    ELSE None

\* ------------------------------------------------------------------------
\* The pattern table

\* the table with a single-wildcard in the "who directed" template
pa_list_SingleWildcard == <<
    [pattern |-> split("what movies were made in _"), action |-> "title_by_year"],
    [pattern |-> split("what movies were made between _ and _"),
     action |-> "title_by_year_range"],
    [pattern |-> split("what movies were made before _"), action |-> "title_before_year"],
    [pattern |-> split("what movies were made after _"), action |-> "title_after_year"],
    [pattern |-> split("who directed _"), action |-> "director_by_title"],
    [pattern |-> split("who was the director of %"), action |-> "director_by_title"],
    [pattern |-> split("what movies were directed by %"), action |-> "title_by_director"],
    [pattern |-> split("who acted in %"), action |-> "actors_by_title"],
    [pattern |-> split("when was % made"), action |-> "year_by_title"],
    [pattern |-> split("in what movies did % appear"), action |-> "title_by_actor"],
    [pattern |-> <<"bye">>, action |-> "bye_action"] >>

pa_list == <<
    [pattern |-> split("what movies were made in _"), action |-> "title_by_year"],
    [pattern |-> split("what movies were made between _ and _"),
     action |-> "title_by_year_range"],
    [pattern |-> split("what movies were made before _"), action |-> "title_before_year"],
    [pattern |-> split("what movies were made after _"), action |-> "title_after_year"],
    [pattern |-> split("who directed %"), action |-> "director_by_title"],
    [pattern |-> split("who was the director of %"), action |-> "director_by_title"],
    [pattern |-> split("what movies were directed by %"), action |-> "title_by_director"],
    [pattern |-> split("who acted in %"), action |-> "actors_by_title"],
    [pattern |-> split("when was % made"), action |-> "year_by_title"],
    [pattern |-> split("in what movies did % appear"), action |-> "title_by_actor"],
    [pattern |-> <<"bye">>, action |-> "bye_action"] >>

\* ------------------------------------------------------------------------
\* The TMDB API: an API answer is [ok, body]; ok = FALSE stands for a request
\* that raised (network, HTTP status or JSON failure).  The diagnostic a
\* helper prints for such a request is not recorded.

Request(url, params) == [url |-> url, params |-> params]

\* what a helper gives back: its return value and the requests it issued
Helper(val, reqs) == [val |-> val, reqs |-> reqs]

\* the value of "no details" (Python None)
NoDetails == [truthy |-> FALSE, has_credits |-> FALSE, crew |-> <<>>, cast |-> <<>>]

search_movies_by_title(title, w) ==
    IF TMDB_API_KEY = "" THEN Helper(<<>>, <<>>)
    ELSE Helper(IF w.movies.ok THEN w.movies.body ELSE <<>>,
                <<Request("/search/movie", <<title>>)>>)

get_movie_details(movie_id, w) ==
    IF TMDB_API_KEY = "" THEN Helper(NoDetails, <<>>)
    ELSE Helper(IF w.details.ok THEN w.details.body ELSE NoDetails,
                <<Request("/movie/" \o str(movie_id), <<"credits">>)>>)

search_movies_by_year(year, w) ==
    IF TMDB_API_KEY = "" THEN Helper(<<>>, <<>>)
    ELSE Helper(IF w.movies.ok THEN w.movies.body ELSE <<>>,
                <<Request("/discover/movie", <<year>>)>>)

search_movies_by_year_range(start_year, end_year, w) ==
    IF TMDB_API_KEY = "" THEN Helper(<<>>, <<>>)
    ELSE Helper(IF w.movies.ok THEN w.movies.body ELSE <<>>,
                <<Request("/discover/movie",
                          <<start_year \o "-01-01", end_year \o "-12-31">>)>>)

search_person(name, w) ==
    IF TMDB_API_KEY = "" THEN Helper(<<>>, <<>>)
    ELSE Helper(IF w.persons.ok THEN w.persons.body ELSE <<>>,
                <<Request("/search/person", <<name>>)>>)

get_movies_by_person(person_id, role, w) ==
    IF TMDB_API_KEY = "" THEN Helper(<<>>, <<>>)
    ELSE Helper(IF w.credits.ok
                THEN (IF role = "cast" THEN w.credits.body.cast ELSE w.credits.body.crew)
                ELSE <<>>,
                <<Request("/person/" \o str(person_id) \o "/movie_credits", <<>>)>>)

\* ------------------------------------------------------------------------
\* The handlers: what a handler gives back is its return value ret, the
\* exception it raised ("" if none) and the requests it issued.

Return(ret, reqs) == [ret |-> ret, raised |-> "", reqs |-> reqs]
Raise(exc, reqs) == [ret |-> <<>>, raised |-> exc, reqs |-> reqs]

NoAnswers == <<"No answers">>
NotUnderstood == <<"I don't understand">>

Titles(movies) == [i \in 1..Len(movies) |-> movies[i].title]
Names(people) == [i \in 1..Len(people) |-> people[i].name]
IsDirector(c) == c.job = "Director"

title_by_year(matches, w) ==
    LET year == matches[1]
        movies == search_movies_by_year(year, w)
    IN IF movies.val = <<>> THEN Return(NoAnswers, movies.reqs)
       ELSE Return(Titles(Slice(movies.val, 10)), movies.reqs)

title_by_year_range(matches, w) ==
    LET start_year == matches[1]
        end_year == matches[2]
        movies == search_movies_by_year_range(start_year, end_year, w)
    IN IF movies.val = <<>> THEN Return(NoAnswers, movies.reqs)
       ELSE Return(Titles(Slice(movies.val, 10)), movies.reqs)

title_before_year(matches, w) ==
    IF ~IsIntLiteral(matches[1]) THEN Raise("ValueError", <<>>)
    ELSE LET year == IntValue(matches[1])
             movies == search_movies_by_year_range("1900", str(year - 1), w)
         IN IF movies.val = <<>> THEN Return(NoAnswers, movies.reqs)
            ELSE Return(Titles(Slice(movies.val, 10)), movies.reqs)

title_after_year(matches, w) ==
    IF ~IsIntLiteral(matches[1]) THEN Raise("ValueError", <<>>)
    ELSE LET year == IntValue(matches[1])
             current_year == 2025
             movies == search_movies_by_year_range(str(year + 1), str(current_year), w)
         IN IF movies.val = <<>> THEN Return(NoAnswers, movies.reqs)
            ELSE Return(Titles(Slice(movies.val, 10)), movies.reqs)

director_by_title(matches, w) ==
    LET title == matches[1]
        movies == search_movies_by_title(title, w)
    IN IF movies.val = <<>> THEN Return(NoAnswers, movies.reqs)
       ELSE LET details == get_movie_details(movies.val[1].id, w)
                reqs == movies.reqs \o details.reqs
                directors == Names(SelectSeq(details.val.crew, IsDirector))
            IN IF ~details.val.truthy \/ ~details.val.has_credits
               THEN Return(NoAnswers, reqs)
               ELSE Return(IF directors # <<>> THEN directors ELSE NoAnswers, reqs)

title_by_director(matches, w) ==
    LET director_name == matches[1]
        persons == search_person(director_name, w)
    IN IF persons.val = <<>> THEN Return(NoAnswers, persons.reqs)
       ELSE LET movies == get_movies_by_person(persons.val[1].id, "crew", w)
                director_movies == Titles(SelectSeq(movies.val, IsDirector))
            IN Return(IF director_movies # <<>> THEN Slice(director_movies, 10)
                      ELSE NoAnswers,
                      persons.reqs \o movies.reqs)

actors_by_title(matches, w) ==
    LET title == matches[1]
        movies == search_movies_by_title(title, w)
    IN IF movies.val = <<>> THEN Return(NoAnswers, movies.reqs)
       ELSE LET details == get_movie_details(movies.val[1].id, w)
                reqs == movies.reqs \o details.reqs
                actors == Names(Slice(details.val.cast, 10))
            IN IF ~details.val.truthy \/ ~details.val.has_credits
               THEN Return(NoAnswers, reqs)
               ELSE Return(IF actors # <<>> THEN actors ELSE NoAnswers, reqs)

year_by_title(matches, w) ==
    LET title == matches[1]
        movies == search_movies_by_title(title, w)
    IN IF movies.val = <<>> THEN Return(NoAnswers, movies.reqs)
       ELSE LET release_date == movies.val[1].release_date
            IN IF release_date # ""
               THEN Return(<<split_on(release_date, "-")[1]>>, movies.reqs)
               ELSE Return(NoAnswers, movies.reqs)

title_by_actor(matches, w) ==
    LET actor_name == matches[1]
        persons == search_person(actor_name, w)
    IN IF persons.val = <<>> THEN Return(NoAnswers, persons.reqs)
       ELSE LET movies == get_movies_by_person(persons.val[1].id, "cast", w)
                titles == Titles(Slice(movies.val, 10))
            IN Return(IF titles # <<>> THEN titles ELSE NoAnswers,
                      persons.reqs \o movies.reqs)

\* bye_action returning an empty list instead of raising
bye_action_Returns(dummy, w) == Return(<<>>, <<>>)

bye_action(dummy, w) == Raise("KeyboardInterrupt", <<>>)

\* action(result) for the handler the table entry names
Invoke(action, matches, w) ==
    CASE action = "title_by_year" -> title_by_year(matches, w)
      [] action = "title_by_year_range" -> title_by_year_range(matches, w)
      [] action = "title_before_year" -> title_before_year(matches, w)
      [] action = "title_after_year" -> title_after_year(matches, w)
      [] action = "director_by_title" -> director_by_title(matches, w)
      [] action = "title_by_director" -> title_by_director(matches, w)
      [] action = "actors_by_title" -> actors_by_title(matches, w)
      [] action = "year_by_title" -> year_by_title(matches, w)
      [] action = "title_by_actor" -> title_by_actor(matches, w)
      [] action = "bye_action" -> bye_action(matches, w)

\* ------------------------------------------------------------------------
\* The dispatcher

\* what search_pa_list gives back: the handler invocations it made, its
\* return value, the exception that escaped it ("" if none), the requests issued
Dispatched(invoked, ret, raised, reqs) ==
    [invoked |-> invoked, ret |-> ret, raised |-> raised, reqs |-> reqs]

RECURSIVE SearchFrom(_, _, _)
\* the for loop of search_pa_list, from entry i of pa_list on
SearchFrom(i, tokens, w) ==
    IF i > Len(pa_list) THEN Dispatched(<<>>, NotUnderstood, "", <<>>)
    ELSE LET result == match(pa_list[i].pattern, tokens) IN
         IF result.some
         THEN LET answers == Invoke(pa_list[i].action, result.val, w)
                  invoked == <<[entry |-> i, action |-> pa_list[i].action,
                                matches |-> result.val]>>
              IN IF answers.raised # ""
                 THEN Dispatched(invoked, <<>>, answers.raised, answers.reqs)
                 ELSE Dispatched(invoked,
                                 IF answers.ret # <<>> THEN answers.ret ELSE NoAnswers,
                                 "", answers.reqs)
         ELSE SearchFrom(i + 1, tokens, w)

\* the loop of search_pa_list missing the first entry of the table
search_pa_list_SkipsFirst(tokens, w) == SearchFrom(2, tokens, w)

search_pa_list(tokens, w) == SearchFrom(1, tokens, w)

\* ------------------------------------------------------------------------
\* The API answers an iteration may meet

Ok(body) == [ok |-> TRUE, body |-> body]
Failed == [ok |-> FALSE, body |-> <<>>]

Movie(i) == [id |-> i, title |-> "m" \o str(i), release_date |-> "2010-07-16",
             job |-> IF i % 2 = 1 THEN "Director" ELSE "Producer"]
MovieList(k) == [i \in 1..k |-> Movie(i)]

Person(i) == [id |-> i, name |-> "p" \o str(i),
              job |-> IF i % 2 = 1 THEN "Director" ELSE "Writer"]
PersonList(k) == [i \in 1..k |-> Person(i)]

\* result lists whose first entry reads like one of the dispatcher's sentinels
Titled(t) == [Movie(1) EXCEPT !.title = t]
Named(n) == [Person(1) EXCEPT !.name = n]
OddMovieLists ==
    { <<Titled("No answers")>>, <<Titled("I don't understand")>>,
      <<[Movie(1) EXCEPT !.release_date = ""]>> }

MovieAnswers ==
    {Failed} \cup {Ok(MovieList(k)) : k \in 0..MaxResults}
             \cup {Ok(l) : l \in OddMovieLists}

Details(crew, cast) ==
    [truthy |-> TRUE, has_credits |-> TRUE, crew |-> crew, cast |-> cast]
DetailsAnswers ==
    { Failed,
      Ok([truthy |-> TRUE, has_credits |-> FALSE, crew |-> <<>>, cast |-> <<>>]),
      Ok(Details(<<>>, <<>>)),
      Ok(Details(PersonList(3), PersonList(MaxResults))),
      Ok(Details(<<Person(2)>>, <<Person(2)>>)),
      Ok(Details(<<Named("No answers")>>, <<Named("No answers")>>)) }

PersonAnswers == {Failed, Ok(<<>>), Ok(PersonList(2))}

CreditsAnswers ==
    { Failed,
      Ok([cast |-> <<>>, crew |-> <<>>]),
      Ok([cast |-> MovieList(MaxResults), crew |-> MovieList(MaxResults)]),
      Ok([cast |-> <<Movie(2)>>, crew |-> <<Movie(2)>>]),
      Ok([cast |-> <<Titled("No answers")>>, crew |-> <<Titled("No answers")>>]) }

World(movies, details, persons, credits) ==
    [movies |-> movies, details |-> details, persons |-> persons, credits |-> credits]

\* no request is answered: what an iteration that issues none meets
NoWorld == World(Failed, Failed, Failed, Failed)

\* the answers that matter to the handler the tokens are dispatched to
Worlds(tokens) ==
    LET hit == SelectSeq(pa_list, LAMBDA e : match(e.pattern, tokens).some)
        action == IF hit = <<>> THEN "" ELSE hit[1].action
    IN IF TMDB_API_KEY = "" THEN {NoWorld}
       ELSE IF action \in {"title_by_year", "title_by_year_range",
                           "title_before_year", "title_after_year", "year_by_title"}
            THEN {World(m, Failed, Failed, Failed) : m \in MovieAnswers}
       ELSE IF action \in {"director_by_title", "actors_by_title"}
            THEN {World(Failed, Failed, Failed, Failed)}
                 \cup {World(Ok(MovieList(2)), d, Failed, Failed) : d \in DetailsAnswers}
       ELSE IF action \in {"title_by_director", "title_by_actor"}
            THEN {World(Failed, Failed, p, Failed) : p \in PersonAnswers}
                 \cup {World(Failed, Failed, Ok(PersonList(2)), c) :
                         c \in CreditsAnswers}
       ELSE {NoWorld}

\* ------------------------------------------------------------------------
\* The lines a user may type

RECURSIVE StringsOver(_, _)
\* the strings of exactly n characters of the set chars
StringsOver(chars, n) ==
    IF n = 0 THEN {""}
    ELSE {c \o t : c \in chars, t \in StringsOver(chars, n - 1)}

RECURSIVE WordLists(_, _)
\* the lists of exactly n words of the set words
WordLists(words, n) ==
    IF n = 0 THEN {<<>>}
    ELSE {<<x>> \o t : x \in words, t \in WordLists(words, n - 1)}

BlankLines == UNION {StringsOver({" ", "\t", "?"}, n) : n \in 0..MaxBlank}

TitleWords == {"dark", "knight"}
TitleLists == UNION {WordLists(TitleWords, n) : n \in 1..MaxTitle}

YearWords == {"2010", "abc"}

QueryLines ==
    {"what movies were made in " \o y : y \in YearWords}
    \cup {"what movies were made before " \o y : y \in YearWords}
    \cup {"what movies were made after " \o y : y \in YearWords}
    \cup {"who directed " \o join(t) : t \in TitleLists}
    \cup { "what movies were made between 2010 and 2015",
           "what movies were made between 2010 and 2015 and 2020",
           "who was the director of inception",
           "what movies were directed by christopher nolan",
           "who acted in the dark knight",
           "who directed the dark knight",
           "when was interstellar made",
           "when was made made",
           "in what movies did leonardo dicaprio appear",
           "Who Directed Inception?",
           "who  directed\tthe   dark knight ",
           "WHAT MOVIES WERE MADE IN 2020?",
           "What movies were made Before ?1999" }

ByeLines == {"bye", "Bye?", " BYE "}

LimitLines ==
    { "limit 5", "limit 12", "Limit 5?", "limit   5 7", "limit +5",
      "limit 1_2", "limit 0", "limit -1", "limit abc", "limit 5.0", "limit _5",
      "limit ?", "limit", "limit\t5", "? limit 5", "limits 5" }

OtherLines ==
    { "hello", "who directed", "what movies were made in", "bye bye",
      "when was made", "what movies were made in 2010 2011" }

Lines == BlankLines \cup QueryLines \cup ByeLines \cup LimitLines \cup OtherLines

\* ------------------------------------------------------------------------
\* The console loop

\* Prompt.ask(...): the line typed, without its leading and trailing whitespace
PromptAsk(l) == strip(l)

\* the query read without lowercasing it
ReadQuery_NoLower(l) == replace(PromptAsk(l), "?")

\* query = Prompt.ask(...).replace("?", "").lower()
ReadQuery(l) == lower(replace(PromptAsk(l), "?"))

\* the limit a "limit ..." query asks for; 0 when int() or the index raises
NewLimit(query) ==
    LET words == split(query) IN
    IF Len(words) < 2 \/ ~IsIntLiteral(words[2]) THEN [raised |-> TRUE, val |-> 0]
    ELSE [raised |-> FALSE, val |-> IntValue(words[2])]

\* if new_limit > 0, accepted with a bound that lets 0 through
AcceptsLimit_NonNegative(new_limit) == new_limit >= 0

\* if new_limit > 0
AcceptsLimit(new_limit) == new_limit > 0

\* every exception taken for the end of the session
EndsLoop_AnyException(exc) == exc # ""

\* except (KeyboardInterrupt, EOFError): break
EndsLoop(exc) == exc \in {"KeyboardInterrupt", "EOFError"}

\* answers[:result_limit], unless answers is one of the two sentinels
Truncate(answers, limit) ==
    IF answers \notin {NotUnderstood, NoAnswers} THEN Slice(answers, limit)
    ELSE answers

\* the message the display step prints for the (truncated) answers
Message(answers) ==
    IF answers = NotUnderstood THEN "not_understood"
    ELSE IF answers = NoAnswers THEN "no_results"
    ELSE "found"

Init ==
    /\ TMDB_API_KEY \in {"", "key"}
    /\ result_limit = 10
    /\ pc = "prompt"
    /\ line = ""
    /\ world = NoWorld
    /\ src = <<>>
    /\ calls = <<>>
    /\ requests = <<>>
    /\ returned = <<>>
    /\ caught = ""
    /\ printed = <<>>
    /\ shown = <<>>
    /\ farewells = 0

\* Prompt.ask returns the line l the user typed.
ReadLine(l) ==
    /\ pc = "prompt"
    /\ pc' = "query"
    /\ line' = l
    /\ world' = NoWorld
    /\ src' = <<>>
    /\ calls' = <<>>
    /\ requests' = <<>>
    /\ returned' = <<>>
    /\ caught' = ""
    /\ printed' = <<>>
    /\ shown' = <<>>
    /\ UNCHANGED <<TMDB_API_KEY, result_limit, farewells>>

\* The rest of an iteration that takes the "limit " branch and continues.
LimitCommand ==
    LET query == ReadQuery(line)
        new_limit == NewLimit(query)
    IN /\ pc = "query"
       /\ startswith(query, "limit ")
       /\ IF new_limit.raised
          THEN printed' = <<"usage">> /\ UNCHANGED result_limit
          ELSE IF AcceptsLimit(new_limit.val)
               THEN result_limit' = new_limit.val /\ printed' = <<"limit_set">>
               ELSE printed' = <<"limit_positive">> /\ UNCHANGED result_limit
       /\ pc' = "prompt"
       /\ UNCHANGED <<TMDB_API_KEY, line, world, src, calls, requests, returned,
                      caught, shown, farewells>>

\* The rest of an iteration whose query has no words: the loop prompts again.
EmptyLine ==
    LET query == ReadQuery(line) IN
    /\ pc = "query"
    /\ ~startswith(query, "limit ")
    /\ split(query) = <<>>
    /\ pc' = "prompt"
    /\ UNCHANGED <<TMDB_API_KEY, result_limit, line, world, src, calls, requests,
                   returned, caught, printed, shown, farewells>>

\* The rest of an iteration that dispatches the query, with the API answering
\* as in w: it displays the answers, or reports an exception, or ends the loop
\* on the KeyboardInterrupt of bye_action.
Query(w) ==
    LET query == ReadQuery(line)
        query_words == split(query)
        out == search_pa_list(query_words, w)
        answers == Truncate(out.ret, result_limit)
    IN /\ pc = "query"
       /\ ~startswith(query, "limit ")
       /\ query_words # <<>>
       /\ world' = w
       /\ src' = <<query_words>>
       /\ calls' = out.invoked
       /\ requests' = out.reqs
       /\ caught' = out.raised
       /\ IF EndsLoop(out.raised)
          THEN /\ pc' = "done"
               /\ farewells' = farewells + 1
               /\ printed' = <<"farewell">>
               /\ returned' = <<>>
               /\ shown' = <<>>
          ELSE IF out.raised # ""
          THEN /\ pc' = "prompt"
               /\ printed' = <<"error">>
               /\ returned' = <<>>
               /\ shown' = <<>>
               /\ UNCHANGED farewells
          ELSE /\ pc' = "prompt"
               /\ printed' = <<Message(answers)>>
               /\ returned' = out.ret
               /\ shown' = IF Message(answers) = "found" THEN answers ELSE <<>>
               /\ UNCHANGED farewells
       /\ UNCHANGED <<TMDB_API_KEY, result_limit, line>>

\* Ctrl-C or end of input at the prompt, or Ctrl-C while a line is being
\* processed: the loop ends.
Interrupt(exc) ==
    /\ pc \in {"prompt", "query"}
    /\ pc = "query" => exc = "KeyboardInterrupt"
    /\ line' = ""
    /\ world' = NoWorld
    /\ src' = <<>>
    /\ calls' = <<>>
    /\ requests' = <<>>
    /\ returned' = <<>>
    /\ caught' = exc
    /\ printed' = <<"farewell">>
    /\ shown' = <<>>
    /\ pc' = "done"
    /\ farewells' = farewells + 1
    /\ UNCHANGED <<TMDB_API_KEY, result_limit>>

Next ==
    \/ \E l \in Lines : ReadLine(l)
    \/ LimitCommand
    \/ EmptyLine
    \/ \E w \in Worlds(split(ReadQuery(line))) : Query(w)
    \/ \E exc \in {"KeyboardInterrupt", "EOFError"} : Interrupt(exc)

Spec == Init /\ [][Next]_vars

\* ------------------------------------------------------------------------
\* Vocabulary of the properties

\* an iteration has run to its end (or none has started)
Settled == pc # "query"

\* the words of a typed line, as the loop sees them
WordsOf(l) == split(lower(replace(strip(l), "?")))

\* the entries of the table whose template the tokens match
Matching(tokens) ==
    {j \in 1..Len(pa_list) : match(pa_list[j].pattern, tokens).some}

FirstOf(S) == CHOOSE j \in S : \A k \in S : j <= k

Sentinels == {"No answers", "I don't understand"}

YearHandlers ==
    {"title_by_year", "title_by_year_range", "title_before_year", "title_after_year"}

\* a "limit <arg>" line whose argument is missing, no integer or not positive
MalformedLimit(l) ==
    LET words == WordsOf(l) IN
    /\ words # <<>>
    /\ words[1] = "limit"
    /\ \/ Len(words) = 1
       \/ ~IsIntLiteral(words[2])
       \/ IntValue(words[2]) <= 0

\* a "limit n" line with an integer n > 0
WellFormedLimit(l) ==
    LET words == WordsOf(l) IN
    /\ Len(words) >= 2
    /\ words[1] = "limit"
    /\ IsIntLiteral(words[2])
    /\ IntValue(words[2]) > 0

\* what the API holds for the query the handler `action` asks, in API order
Found(action, w) ==
    IF TMDB_API_KEY = "" THEN <<>>
    ELSE IF action \in YearHandlers
         THEN (IF w.movies.ok THEN Titles(w.movies.body) ELSE <<>>)
    ELSE IF action = "year_by_title"
         THEN (IF w.movies.ok /\ w.movies.body # <<>>
                  /\ w.movies.body[1].release_date # ""
               THEN <<SubSeq(w.movies.body[1].release_date, 1, 4)>> ELSE <<>>)
    ELSE IF action \in {"director_by_title", "actors_by_title"}
         THEN (IF w.movies.ok /\ w.movies.body # <<>> /\ w.details.ok
                  /\ w.details.body.has_credits
               THEN (IF action = "director_by_title"
                     THEN Names(SelectSeq(w.details.body.crew, IsDirector))
                     ELSE Names(w.details.body.cast))
               ELSE <<>>)
    ELSE IF action \in {"title_by_director", "title_by_actor"}
         THEN (IF w.persons.ok /\ w.persons.body # <<>> /\ w.credits.ok
               THEN (IF action = "title_by_director"
                     THEN Titles(SelectSeq(w.credits.body.crew, IsDirector))
                     ELSE Titles(w.credits.body.cast))
               ELSE <<>>)
    ELSE <<>>

\* ------------------------------------------------------------------------
\* C1: whenever the dispatcher has been called with a token list that some
\* template matches, exactly one handler was invoked: the handler of the
\* first entry of pa_list, in declared order, whose template matches, with
\* the bindings of that match; with no matching template no handler was
\* invoked.
C1_FirstMatchWins ==
    (Settled /\ src # <<>>) =>
        LET hits == Matching(src[1]) IN
        IF hits = {} THEN calls = <<>>
        ELSE /\ Len(calls) = 1
             /\ calls[1].entry = FirstOf(hits)
             /\ calls[1].action = pa_list[FirstOf(hits)].action
             /\ calls[1].matches = match(pa_list[FirstOf(hits)].pattern, src[1]).val

\* C1's case: a query was dispatched past non-matching earlier entries.
C1_Witness ==
    /\ Settled
    /\ src = <<split("when was interstellar made")>>
    /\ Len(calls) = 1
    /\ calls[1].entry = 9

\* C2: with a positive limit N in force, a query of one of the year handlers
\* whose API call yields M >= 1 results (none titled like a sentinel) is
\* displayed as exactly the first min(N, M) results, in API order.
C2_DisplaysFirstMinLimitResults ==
    ( /\ pc = "prompt"
      /\ calls # <<>>
      /\ calls[1].action \in YearHandlers
      /\ caught = ""
      /\ TMDB_API_KEY # ""
      /\ world.movies.ok
      /\ world.movies.body # <<>>
      /\ \A i \in 1..Len(world.movies.body) : world.movies.body[i].title \notin Sentinels )
    => shown = Titles(Slice(world.movies.body, result_limit))

\* C3: processing a malformed "limit <arg>" line prints a usage error, keeps
\* the result limit and does not dispatch the line.
C3_MalformedLimitRejected ==
    [][ (pc = "query" /\ MalformedLimit(line)) =>
            /\ printed' \in {<<"usage">>, <<"limit_positive">>}
            /\ result_limit' = result_limit
            /\ src' = <<>> ]_vars

\* C4: once the line "bye" has been processed, the ["bye"] entry was matched
\* and bye_action invoked, nothing was returned or displayed, the loop has
\* ended with the farewell printed exactly once, and the ended loop takes no
\* further step.
C4_ByeEndsSession ==
    /\ []( (Settled /\ WordsOf(line) = <<"bye">>) =>
              /\ pc = "done"
              /\ src = <<(<<"bye">>)>>
              /\ calls = <<[entry |-> Len(pa_list), action |-> "bye_action",
                            matches |-> <<>>]>>
              /\ returned = <<>>
              /\ shown = <<>>
              /\ printed = <<"farewell">>
              /\ farewells = 1 )
    /\ [](farewells = IF pc = "done" THEN 1 ELSE 0)
    /\ [][pc # "done"]_vars

\* C4's case: bye typed after an earlier limit command.
C4_Witness ==
    /\ pc = "done"
    /\ line = "Bye?"
    /\ result_limit = 5
    /\ farewells = 1

\* C5: with no API key, a query dispatched to a handler other than bye_action
\* makes the dispatcher return ["No answers"], with no exception and no
\* HTTP request.
C5_NoKeyNoAnswer ==
    (Settled /\ TMDB_API_KEY = "" /\ calls # <<>> /\ calls[1].action # "bye_action")
    => (returned = NoAnswers /\ caught = "" /\ requests = <<>>)

\* C6: for a dispatched query that raised nothing: no matching template gives
\* the "not understood" sentinel and message with no handler invoked; a
\* matching template whose handler finds nothing gives the "no answers"
\* sentinel and message; a matching template whose handler finds a result
\* is displayed with neither sentinel message.
C6_SentinelsNotConfused ==
    (pc = "prompt" /\ src # <<>> /\ caught = "") =>
        IF Matching(src[1]) = {}
        THEN calls = <<>> /\ returned = NotUnderstood /\ printed = <<"not_understood">>
        ELSE /\ calls # <<>>
             /\ IF Found(calls[1].action, world) = <<>>
                THEN returned = NoAnswers /\ printed = <<"no_results">>
                ELSE printed = <<"found">>

\* C7: a line "who directed t" with a non-empty list of title words t is
\* dispatched to director_by_title with the single binding " ".join(t), which
\* is also the title the handler searches for.
C7_WhoDirectedBindsWholeTitle ==
    (Settled /\ src # <<>> /\ Len(src[1]) >= 3
        /\ src[1][1] = "who" /\ src[1][2] = "directed") =>
        LET t == SubSeq(src[1], 3, Len(src[1])) IN
        /\ Len(calls) = 1
        /\ calls[1].action = "director_by_title"
        /\ calls[1].matches = <<join(t)>>
        /\ Len(split(calls[1].matches[1])) = Len(t)
        /\ (line = "who directed the dark knight"
               => calls[1].matches = <<"the dark knight">>)
        /\ (TMDB_API_KEY # ""
               => requests[1] = Request("/search/movie", <<join(t)>>))

\* C7's case: a title of several words, typed with irregular blanks.
C7_Witness ==
    /\ Settled
    /\ line = "who  directed\tthe   dark knight "
    /\ Len(calls) = 1
    /\ calls[1].matches = <<"the dark knight">>

C9_OnlyCleanTokensDispatched ==
    /\ \A i \in 1..Len(src) :
          /\ src[i] # <<>>
          /\ \A j \in 1..Len(src[i]) :
                /\ src[i][j] # ""
                /\ \A k \in 1..Len(src[i][j]) :
                      /\ ~Contains(UpperCase, CharAt(src[i][j], k))
                      /\ ~IsSpace(CharAt(src[i][j], k))
                      /\ CharAt(src[i][j], k) # "?"
    /\ (Settled /\ pc # "done"
          /\ \A k \in 1..Len(line) : CharAt(line, k) \in {" ", "\t", "?"})
       => (pc = "prompt" /\ src = <<>> /\ calls = <<>> /\ printed = <<>>
              /\ shown = <<>> /\ requests = <<>>)

\* C9's case: a line typed with capitals and a question mark was dispatched.
C9_Witness ==
    /\ Settled
    /\ line = "Who Directed Inception?"
    /\ src = <<(<<"who", "directed", "inception">>)>>

\* C10: the result limit starts at 10 and is always a positive integer; a
\* step changes it only while processing a "limit n" line with an integer
\* n > 0, and then to exactly n.
C10_LimitPositiveAndFramed ==
    /\ result_limit = 10
    /\ [](result_limit \in Nat /\ result_limit > 0)
    /\ [][ result_limit' # result_limit =>
              /\ pc = "query"
              /\ WellFormedLimit(line)
              /\ result_limit' = IntValue(WordsOf(line)[2])
              /\ printed' = <<"limit_set">> ]_vars

\* C10's case: a limit command has just changed the limit.
C10_Witness ==
    /\ pc = "prompt"
    /\ line = "limit 1_2"
    /\ result_limit = 12
    /\ printed = <<"limit_set">>

=============================================================================
